---- MODULE Spec2Model ----
(***************************************************************************)
(* Model of stellar-lend/contracts/lending/src/borrow.rs: the borrow       *)
(* admission path, the interest accrual, the admin settings and the two    *)
(* read-only queries, over the contract's persistent storage.              *)
(*                                                                         *)
(* The contract computes in i128.  TLC's integers are 32 bits wide, so an  *)
(* i128 is modelled as a sign and a magnitude, the magnitude a sequence of *)
(* decimal digits, least significant first, without leading zeros          *)
(* (<<0,0,5,1>> is 1500, <<>> is 0).  The checked_* and saturating_*       *)
(* operations are those of Rust's i128 at its real width.  Right operands  *)
(* that the code takes from a constant or from a u64 time difference are   *)
(* TLC integers.                                                           *)
(***************************************************************************)
EXTENDS Integers, Sequences, FiniteSets, TLC

----------------------------------------------------------------------------
(* Magnitudes: natural numbers of unbounded size.                          *)

Max2(a, b) == IF a >= b THEN a ELSE b

Digit(m, i) == IF i <= Len(m) THEN m[i] ELSE 0

(* The digit loops below split their range in two halves and pass the     *)
(* carry from the half done first to the other, so that the depth of the   *)
(* evaluation grows with the logarithm of the number of digits.            *)

\* the highest index in lo..hi of a non-zero digit of m, or 0
RECURSIVE TopDigit(_, _, _)
TopDigit(m, lo, hi) ==
    IF lo > hi THEN 0
    ELSE IF lo = hi THEN (IF m[lo] # 0 THEN lo ELSE 0)
    ELSE LET mid == (lo + hi) \div 2
             high == TopDigit(m, mid + 1, hi)
         IN  IF high # 0 THEN high ELSE TopDigit(m, lo, mid)

\* m without leading zeros
Trim(m) == SubSeq(m, 1, TopDigit(m, 1, Len(m)))

RECURSIVE FromNat(_)
FromNat(n) == IF n = 0 THEN <<>> ELSE <<n % 10>> \o FromNat(n \div 10)

\* -1, 0 or 1 as digits lo..hi of a are below, equal to or above those of b
RECURSIVE CmpFrom(_, _, _, _)
CmpFrom(a, b, lo, hi) ==
    IF lo > hi THEN 0
    ELSE IF lo = hi
         THEN (IF a[lo] > b[lo] THEN 1 ELSE IF a[lo] < b[lo] THEN -1 ELSE 0)
    ELSE LET mid == (lo + hi) \div 2
             high == CmpFrom(a, b, mid + 1, hi)
         IN  IF high # 0 THEN high ELSE CmpFrom(a, b, lo, mid)

\* -1, 0 or 1 as a < b, a = b or a > b
MagCmp(a, b) ==
    IF Len(a) > Len(b) THEN 1
    ELSE IF Len(a) < Len(b) THEN -1
    ELSE CmpFrom(a, b, 1, Len(a))

\* digits lo..hi of a + b + c, and the carry out of them
RECURSIVE AddFrom(_, _, _, _, _)
AddFrom(a, b, lo, hi, c) ==
    IF lo > hi THEN [digits |-> <<>>, carry |-> c]
    ELSE IF lo = hi
         THEN LET s == Digit(a, lo) + Digit(b, lo) + c
              IN  [digits |-> <<s % 10>>, carry |-> s \div 10]
    ELSE LET mid == (lo + hi) \div 2
             low == AddFrom(a, b, lo, mid, c)
             high == AddFrom(a, b, mid + 1, hi, low.carry)
         IN  [digits |-> low.digits \o high.digits, carry |-> high.carry]

MagAdd(a, b) ==
    LET sum == AddFrom(a, b, 1, Max2(Len(a), Len(b)), 0)
    IN  sum.digits \o FromNat(sum.carry)

\* digits lo..hi of a - b - c, and the borrow out of them
RECURSIVE SubFrom(_, _, _, _, _)
SubFrom(a, b, lo, hi, c) ==
    IF lo > hi THEN [digits |-> <<>>, carry |-> c]
    ELSE IF lo = hi
         THEN LET s == a[lo] - Digit(b, lo) - c
              IN  IF s < 0 THEN [digits |-> <<s + 10>>, carry |-> 1]
                           ELSE [digits |-> <<s>>, carry |-> 0]
    ELSE LET mid == (lo + hi) \div 2
             low == SubFrom(a, b, lo, mid, c)
             high == SubFrom(a, b, mid + 1, hi, low.carry)
         IN  [digits |-> low.digits \o high.digits, carry |-> high.carry]

\* a - b for a >= b
MagSub(a, b) == Trim(SubFrom(a, b, 1, Len(a), 0).digits)

\* digits lo..hi of a * n + c, and the carry out of them
RECURSIVE MulFrom(_, _, _, _, _)
MulFrom(a, n, lo, hi, c) ==
    IF lo > hi THEN [digits |-> <<>>, carry |-> c]
    ELSE IF lo = hi
         THEN LET p == a[lo] * n + c
              IN  [digits |-> <<p % 10>>, carry |-> p \div 10]
    ELSE LET mid == (lo + hi) \div 2
             low == MulFrom(a, n, lo, mid, c)
             high == MulFrom(a, n, mid + 1, hi, low.carry)
         IN  [digits |-> low.digits \o high.digits, carry |-> high.carry]

\* a * n for a TLC natural n
MagMul(a, n) ==
    LET product == MulFrom(a, n, 1, Len(a), 0)
    IN  Trim(product.digits \o FromNat(product.carry))

\* digits hi down to lo of the quotient of a by d, r being the remainder of
\* the digits above hi, and the remainder after them
RECURSIVE DivFrom(_, _, _, _, _)
DivFrom(a, d, lo, hi, r) ==
    IF lo > hi THEN [digits |-> <<>>, carry |-> r]
    ELSE IF lo = hi
         THEN LET cur == r * 10 + a[lo]
              IN  [digits |-> <<cur \div d>>, carry |-> cur % d]
    ELSE LET mid == (lo + hi) \div 2
             high == DivFrom(a, d, mid + 1, hi, r)
             low == DivFrom(a, d, lo, mid, high.carry)
         IN  [digits |-> high.digits \o low.digits, carry |-> low.carry]

\* s from its last element to its first
RECURSIVE Reverse(_)
Reverse(s) ==
    IF Len(s) <= 1 THEN s
    ELSE LET mid == Len(s) \div 2
         IN  Reverse(SubSeq(s, mid + 1, Len(s))) \o Reverse(SubSeq(s, 1, mid))

\* floor(a / d) for a TLC natural d > 0
MagDiv(a, d) == Trim(Reverse(DivFrom(a, d, 1, Len(a), 0).digits))

----------------------------------------------------------------------------
(* i128: a sign and a magnitude; zero is never negative.                   *)

Mk(neg, mag) == [neg |-> neg /\ mag # <<>>, mag |-> mag]

\* the i128 of a TLC integer
I(n) == IF n < 0 THEN Mk(TRUE, FromNat(-n)) ELSE Mk(FALSE, FromNat(n))

ZERO == I(0)

\* i128::MAX = 2^127 - 1 = 170141183460469231731687303715884105727
I128_MAX ==
    Mk(FALSE, <<7, 2, 7, 5, 0, 1, 4, 8, 8, 5, 1, 7, 3, 0, 3, 7, 8, 6, 1, 3,
                7, 1, 3, 2, 9, 6, 4, 0, 6, 4, 3, 8, 1, 1, 4, 1, 0, 7, 1>>)

\* i128::MIN = -2^127
I128_MIN ==
    Mk(TRUE, <<8, 2, 7, 5, 0, 1, 4, 8, 8, 5, 1, 7, 3, 0, 3, 7, 8, 6, 1, 3,
               7, 1, 3, 2, 9, 6, 4, 0, 6, 4, 3, 8, 1, 1, 4, 1, 0, 7, 1>>)

\* -1, 0 or 1 as x < y, x = y or x > y
IntCmp(x, y) ==
    IF x.neg /\ ~y.neg THEN -1
    ELSE IF ~x.neg /\ y.neg THEN 1
    ELSE IF x.neg THEN MagCmp(y.mag, x.mag)
    ELSE MagCmp(x.mag, y.mag)

Lt(x, y) == IntCmp(x, y) < 0
Le(x, y) == IntCmp(x, y) <= 0
Gt(x, y) == IntCmp(x, y) > 0
Ge(x, y) == IntCmp(x, y) >= 0

Abs(n) == IF n < 0 THEN -n ELSE n

\* the exact sum, product and truncated quotient, before any range check
IntAdd(x, y) ==
    IF x.neg = y.neg THEN Mk(x.neg, MagAdd(x.mag, y.mag))
    ELSE IF MagCmp(x.mag, y.mag) >= 0 THEN Mk(x.neg, MagSub(x.mag, y.mag))
    ELSE Mk(y.neg, MagSub(y.mag, x.mag))

IntMul(x, n) == Mk(x.neg # (n < 0), MagMul(x.mag, Abs(n)))

IntDiv(x, d) == Mk(x.neg # (d < 0), MagDiv(x.mag, Abs(d)))

Fits(x) == Ge(x, I128_MIN) /\ Le(x, I128_MAX)

\* Option<T>: None is <<>>, Some(v) is <<v>>
None == <<>>
Some(v) == <<v>>
unwrap_or(o, d) == IF o = None THEN d ELSE o[1]

checked_add(x, y) == LET r == IntAdd(x, y) IN IF Fits(r) THEN Some(r) ELSE None

checked_mul(x, n) == LET r == IntMul(x, n) IN IF Fits(r) THEN Some(r) ELSE None

checked_div(x, d) ==
    IF d = 0 THEN None
    ELSE LET r == IntDiv(x, d) IN IF Fits(r) THEN Some(r) ELSE None

Saturate(r) == IF Fits(r) THEN r ELSE IF r.neg THEN I128_MIN ELSE I128_MAX

saturating_add(x, y) == Saturate(IntAdd(x, y))

saturating_mul(x, n) == Saturate(IntMul(x, n))

\* the divisors of this contract are non-zero constants
saturating_div(x, d) == Saturate(IntDiv(x, d))

\* u64::saturating_sub
saturating_sub(a, b) == IF a >= b THEN a - b ELSE 0

----------------------------------------------------------------------------
(* Program constants.                                                      *)

COLLATERAL_RATIO_MIN == 15000
INTEREST_RATE_PER_YEAR == 500
SECONDS_PER_YEAR == 31536000
BASIS_POINTS == 10000
DEFAULT_MIN_BORROW == 1000

(* Bounds of the model.                                                    *)

\* successful borrows in one run
MaxBorrows == 2
\* advances of the ledger clock in one run
MaxTicks == 1

Users == {"alice", "bob"}

\* the largest amount whose product with COLLATERAL_RATIO_MIN fits an i128
RatioLimit == IntDiv(I128_MAX, COLLATERAL_RATIO_MIN)

Call(user, asset, amount, collateral_asset, collateral_amount, authorized) ==
    [user |-> user, asset |-> asset, amount |-> amount,
     collateral_asset |-> collateral_asset,
     collateral_amount |-> collateral_amount, authorized |-> authorized]

\* the borrow calls made in a run
BorrowCalls ==
    { Call("alice", "USDC", I(0), "XLM", I(1500), TRUE),
      Call("alice", "USDC", I(1000), "XLM", I(0), TRUE),
      Call("alice", "USDC", I(-1), "XLM", I(-1), TRUE),
      Call("alice", "USDC", I(999), "XLM", I(1500), TRUE),
      Call("alice", "USDC", I(1000), "XLM", I(1499), TRUE),
      Call("alice", "USDC", I(1000), "XLM", I(1500), TRUE),
      Call("alice", "XLM", I(1001), "USDC", I(1501), TRUE),
      Call("alice", "USDC", I(1000), "XLM", I128_MAX, TRUE),
      Call("alice", "USDC", IntAdd(RatioLimit, I(1)), "XLM", I128_MAX, TRUE),
      Call("alice", "USDC", I(1000), "XLM", I(1500), FALSE),
      Call("alice", "USDC", I(0), "XLM", I(0), FALSE),
      Call("bob", "USDC", I(1000), "XLM", I(1500), TRUE),
      Call("bob", "USDC", I(1), "XLM", I(1), TRUE) }

\* (debt_ceiling, min_borrow_amount) of the admin's settings
Settings == { <<I(500), I(1000)>>, <<I(2000), I(1)>> }

\* seconds by which the ledger clock advances, and where it stops
TickSeconds == {SECONDS_PER_YEAR}
MaxTime == MaxTicks * SECONDS_PER_YEAR

----------------------------------------------------------------------------
(* State: the persistent storage entries (None while a key is absent),     *)
(* the ledger timestamp, the published events and the last call with what  *)
(* it returned.                                                            *)

VARIABLES UserDebt, UserCollateral, TotalDebt, DebtCeiling, MinBorrowAmount,
          Paused, timestamp, events, lastCall

storage == <<UserDebt, UserCollateral, TotalDebt, DebtCeiling, MinBorrowAmount, Paused>>

vars == <<UserDebt, UserCollateral, TotalDebt, DebtCeiling, MinBorrowAmount,
          Paused, timestamp, events, lastCall>>

DebtPosition(borrowed_amount, interest_accrued, last_update, asset) ==
    [borrowed_amount |-> borrowed_amount, interest_accrued |-> interest_accrued,
     last_update |-> last_update, asset |-> asset]

CollateralPosition(amount, asset) == [amount |-> amount, asset |-> asset]

BorrowEvent(user, asset, amount, collateral, ts) ==
    [user |-> user, asset |-> asset, amount |-> amount,
     collateral |-> collateral, timestamp |-> ts]

----------------------------------------------------------------------------
(* Storage accessors.                                                      *)

get_debt_position(user) ==
    unwrap_or(UserDebt[user], DebtPosition(ZERO, ZERO, timestamp, user))

get_collateral_position(user) ==
    unwrap_or(UserCollateral[user], CollateralPosition(ZERO, user))

get_total_debt == unwrap_or(TotalDebt, ZERO)

get_debt_ceiling == unwrap_or(DebtCeiling, I128_MAX)

\* mutant: an absent minimum is read as zero
get_min_borrow_amount_ZeroDefault == unwrap_or(MinBorrowAmount, ZERO)

get_min_borrow_amount == unwrap_or(MinBorrowAmount, I(DEFAULT_MIN_BORROW))

is_paused == unwrap_or(Paused, FALSE)

----------------------------------------------------------------------------
(* Pure helpers of borrow.                                                 *)

\* mutant: collateral equal to the minimum is refused too
validate_collateral_ratio_Strict(collateral, borrow_amount) ==
    LET product == checked_mul(borrow_amount, COLLATERAL_RATIO_MIN) IN
    IF product = None THEN "Overflow"
    ELSE LET min_collateral == checked_div(product[1], BASIS_POINTS) IN
         IF min_collateral = None THEN "InvalidAmount"
         ELSE IF Le(collateral, min_collateral[1]) THEN "InsufficientCollateral"
         ELSE "Ok"

\* "Ok" or the BorrowError
validate_collateral_ratio(collateral, borrow_amount) ==
    LET product == checked_mul(borrow_amount, COLLATERAL_RATIO_MIN) IN
    IF product = None THEN "Overflow"
    ELSE LET min_collateral == checked_div(product[1], BASIS_POINTS) IN
         IF min_collateral = None THEN "InvalidAmount"
         ELSE IF Lt(collateral, min_collateral[1]) THEN "InsufficientCollateral"
         ELSE "Ok"

\* mutant: a product that overflows counts as zero
interest_at_ZeroOnOverflow(position, current_time) ==
    IF position.borrowed_amount = ZERO THEN ZERO
    ELSE LET time_elapsed == saturating_sub(current_time, position.last_update)
             rate == unwrap_or(checked_mul(position.borrowed_amount,
                                           INTEREST_RATE_PER_YEAR), ZERO)
         IN  saturating_div(
                 saturating_div(unwrap_or(checked_mul(rate, time_elapsed), ZERO),
                                BASIS_POINTS),
                 SECONDS_PER_YEAR)

\* mutant: the division by 10000 comes before the multiplication by the time
interest_at_DivideFirst(position, current_time) ==
    IF position.borrowed_amount = ZERO THEN ZERO
    ELSE LET time_elapsed == saturating_sub(current_time, position.last_update)
         IN  saturating_div(
                 saturating_mul(
                     saturating_div(
                         saturating_mul(position.borrowed_amount, INTEREST_RATE_PER_YEAR),
                         BASIS_POINTS),
                     time_elapsed),
                 SECONDS_PER_YEAR)

\* calculate_interest as a function of the position and of the ledger time
interest_at(position, current_time) ==
    IF position.borrowed_amount = ZERO THEN ZERO
    ELSE LET time_elapsed == saturating_sub(current_time, position.last_update)
         IN  saturating_div(
                 saturating_div(
                     saturating_mul(
                         saturating_mul(position.borrowed_amount, INTEREST_RATE_PER_YEAR),
                         time_elapsed),
                     BASIS_POINTS),
                 SECONDS_PER_YEAR)

calculate_interest(position) == interest_at(position, timestamp)

\* mutant: the ceiling is compared with the total before this borrow
exceeds_ceiling_OldTotal(new_total, debt_ceiling) == Gt(get_total_debt, debt_ceiling)

\* new_total > debt_ceiling
exceeds_ceiling(new_total, debt_ceiling) == Gt(new_total, debt_ceiling)

Err(e) == [result |-> e, writes |-> None]

\* mutant: the borrowed amount is overwritten, not added to
updated_debt_position_Overwrite(user, asset, amount) ==
    LET debt_position == get_debt_position(user)
        accrued_interest == calculate_interest(debt_position)
        interest_accrued == checked_add(debt_position.interest_accrued, accrued_interest)
    IN  IF interest_accrued = None THEN None
        ELSE Some(DebtPosition(amount, interest_accrued[1], timestamp, asset))

\* mutant: the accrued interest is added with saturation
updated_debt_position_Saturating(user, asset, amount) ==
    LET debt_position == get_debt_position(user)
        accrued_interest == calculate_interest(debt_position)
        borrowed_amount == checked_add(debt_position.borrowed_amount, amount)
    IN  IF borrowed_amount = None THEN None
        ELSE Some(DebtPosition(borrowed_amount[1],
                               saturating_add(debt_position.interest_accrued,
                                              accrued_interest),
                               timestamp, asset))

\* mutant: interest is charged on the principal that includes this borrow
updated_debt_position_InterestAfter(user, asset, amount) ==
    LET debt_position == get_debt_position(user)
        borrowed_amount == checked_add(debt_position.borrowed_amount, amount)
    IN  IF borrowed_amount = None THEN None
        ELSE LET accrued_interest ==
                     calculate_interest([debt_position EXCEPT
                                             !.borrowed_amount = borrowed_amount[1]])
                 interest_accrued ==
                     checked_add(debt_position.interest_accrued, accrued_interest)
             IN  IF interest_accrued = None THEN None
                 ELSE Some(DebtPosition(borrowed_amount[1], interest_accrued[1],
                                        timestamp, asset))

\* the debt position after the borrow, or None on overflow
updated_debt_position(user, asset, amount) ==
    LET debt_position == get_debt_position(user)
        accrued_interest == calculate_interest(debt_position)
        borrowed_amount == checked_add(debt_position.borrowed_amount, amount)
    IN  IF borrowed_amount = None THEN None
        ELSE LET interest_accrued ==
                     checked_add(debt_position.interest_accrued, accrued_interest)
             IN  IF interest_accrued = None THEN None
                 ELSE Some(DebtPosition(borrowed_amount[1], interest_accrued[1],
                                        timestamp, asset))

\* mutant: the collateral of this borrow replaces the stored amount
updated_collateral_position_Overwrite(user, collateral_asset, collateral_amount) ==
    LET collateral_position == get_collateral_position(user)
        amount == checked_add(collateral_position.amount, collateral_amount)
    IN  IF amount = None THEN None
        ELSE Some(CollateralPosition(collateral_amount, collateral_asset))

\* the collateral position after the borrow, or None on overflow
updated_collateral_position(user, collateral_asset, collateral_amount) ==
    LET collateral_position == get_collateral_position(user)
        amount == checked_add(collateral_position.amount, collateral_amount)
    IN  IF amount = None THEN None
        ELSE Some(CollateralPosition(amount[1], collateral_asset))

\* mutant: the amounts are validated before the pause flag is read
borrow_validate_AmountFirst(amount, collateral_amount) ==
    IF Le(amount, ZERO) \/ Le(collateral_amount, ZERO) THEN "InvalidAmount"
    ELSE IF is_paused THEN "ProtocolPaused"
    ELSE IF Lt(amount, get_min_borrow_amount) THEN "BelowMinimumBorrow"
    ELSE validate_collateral_ratio(collateral_amount, amount)

\* mutant: zero amounts pass the amount validation
borrow_validate_ZeroPasses(amount, collateral_amount) ==
    IF is_paused THEN "ProtocolPaused"
    ELSE IF Lt(amount, ZERO) \/ Lt(collateral_amount, ZERO) THEN "InvalidAmount"
    ELSE IF Lt(amount, get_min_borrow_amount) THEN "BelowMinimumBorrow"
    ELSE validate_collateral_ratio(collateral_amount, amount)

\* the validations of borrow before it reads the totals: "Ok" or the BorrowError
borrow_validate(amount, collateral_amount) ==
    IF is_paused THEN "ProtocolPaused"
    ELSE IF Le(amount, ZERO) \/ Le(collateral_amount, ZERO) THEN "InvalidAmount"
    ELSE IF Lt(amount, get_min_borrow_amount) THEN "BelowMinimumBorrow"
    ELSE validate_collateral_ratio(collateral_amount, amount)

\* mutant: the ceiling is checked before the overflow of the new total
borrow_apply_CeilingFirst(user, asset, amount, collateral_asset, collateral_amount) ==
    LET total_debt == get_total_debt
        debt_ceiling == get_debt_ceiling
        new_total == checked_add(total_debt, amount)
    IN
    IF exceeds_ceiling(IntAdd(total_debt, amount), debt_ceiling)
    THEN Err("DebtCeilingReached")
    ELSE IF new_total = None THEN Err("Overflow")
    ELSE LET debt_position == updated_debt_position(user, asset, amount) IN
    IF debt_position = None THEN Err("Overflow")
    ELSE LET collateral_position ==
                 updated_collateral_position(user, collateral_asset, collateral_amount)
         IN
    IF collateral_position = None THEN Err("Overflow")
    ELSE [result |-> "Ok",
          writes |-> Some([debt |-> debt_position[1],
                           collateral |-> collateral_position[1],
                           total |-> new_total[1]])]

\* the ceiling check and the position updates of borrow
borrow_apply(user, asset, amount, collateral_asset, collateral_amount) ==
    LET total_debt == get_total_debt
        debt_ceiling == get_debt_ceiling
        new_total == checked_add(total_debt, amount)
    IN
    IF new_total = None THEN Err("Overflow")
    ELSE IF exceeds_ceiling(new_total[1], debt_ceiling) THEN Err("DebtCeilingReached")
    ELSE LET debt_position == updated_debt_position(user, asset, amount) IN
    IF debt_position = None THEN Err("Overflow")
    ELSE LET collateral_position ==
                 updated_collateral_position(user, collateral_asset, collateral_amount)
         IN
    IF collateral_position = None THEN Err("Overflow")
    ELSE [result |-> "Ok",
          writes |-> Some([debt |-> debt_position[1],
                           collateral |-> collateral_position[1],
                           total |-> new_total[1]])]

(* borrow: what the call returns and, when it reaches them, the three      *)
(* values it writes.  require_auth does not return when the caller is not  *)
(* authorized for user: the host aborts the invocation ("AuthTrap") and    *)
(* borrow returns no BorrowError.                                          *)
borrow(user, asset, amount, collateral_asset, collateral_amount, authorized) ==
    IF ~authorized THEN Err("AuthTrap")
    ELSE LET valid == borrow_validate(amount, collateral_amount) IN
         IF valid # "Ok" THEN Err(valid)
         ELSE borrow_apply(user, asset, amount, collateral_asset, collateral_amount)

get_user_debt(user) ==
    LET position == get_debt_position(user)
        accrued == calculate_interest(position)
    IN  [position EXCEPT !.interest_accrued = saturating_add(@, accrued)]

get_user_collateral(user) == get_collateral_position(user)

----------------------------------------------------------------------------
(* Actions: one per entry point, and the ledger clock.                     *)

Init ==
    /\ UserDebt = [u \in Users |-> None]
    /\ UserCollateral = [u \in Users |-> None]
    /\ TotalDebt = None
    /\ DebtCeiling = None
    /\ MinBorrowAmount = None
    /\ Paused = None
    /\ timestamp = 0
    /\ events = <<>>
    /\ lastCall = [op |-> "none"]

\* mutant: set_total_debt is left out
Commit_NoTotal(user, writes) ==
    IF writes = None
    THEN UNCHANGED <<UserDebt, UserCollateral, TotalDebt>>
    ELSE /\ UserDebt' = [UserDebt EXCEPT ![user] = Some(writes[1].debt)]
         /\ UserCollateral' = [UserCollateral EXCEPT ![user] = Some(writes[1].collateral)]
         /\ UNCHANGED TotalDebt

\* save_debt_position, save_collateral_position, set_total_debt
Commit(user, writes) ==
    IF writes = None
    THEN UNCHANGED <<UserDebt, UserCollateral, TotalDebt>>
    ELSE /\ UserDebt' = [UserDebt EXCEPT ![user] = Some(writes[1].debt)]
         /\ UserCollateral' = [UserCollateral EXCEPT ![user] = Some(writes[1].collateral)]
         /\ TotalDebt' = Some(writes[1].total)

\* mutant: the event is published before the outcome is known
Emit_Always(result, event) == events' = Append(events, event)

\* emit_borrow_event
Emit(result, event) == events' = IF result = "Ok" THEN Append(events, event) ELSE events

\* mutant: the loaded debt position is saved before the validations
Borrow_SavesFirst(user, asset, amount, collateral_asset, collateral_amount, authorized) ==
    /\ Len(events) < MaxBorrows
    /\ \E out \in {borrow(user, asset, amount, collateral_asset, collateral_amount,
                         authorized)} :
           /\ IF out.writes = None
              THEN /\ UserDebt' = [UserDebt EXCEPT ![user] = Some(get_debt_position(user))]
                   /\ UNCHANGED <<UserCollateral, TotalDebt>>
              ELSE Commit(user, out.writes)
           /\ Emit(out.result,
                   BorrowEvent(user, asset, amount, collateral_amount, timestamp))
           /\ lastCall' = [op |-> "borrow", user |-> user, asset |-> asset,
                           amount |-> amount, collateral_asset |-> collateral_asset,
                           collateral_amount |-> collateral_amount,
                           authorized |-> authorized, result |-> out.result]
    /\ UNCHANGED <<DebtCeiling, MinBorrowAmount, Paused, timestamp>>

Borrow(user, asset, amount, collateral_asset, collateral_amount, authorized) ==
    /\ Len(events) < MaxBorrows
    /\ \E out \in {borrow(user, asset, amount, collateral_asset, collateral_amount,
                         authorized)} :
           /\ Commit(user, out.writes)
           /\ Emit(out.result,
                   BorrowEvent(user, asset, amount, collateral_amount, timestamp))
           /\ lastCall' = [op |-> "borrow", user |-> user, asset |-> asset,
                           amount |-> amount, collateral_asset |-> collateral_asset,
                           collateral_amount |-> collateral_amount,
                           authorized |-> authorized, result |-> out.result]
    /\ UNCHANGED <<DebtCeiling, MinBorrowAmount, Paused, timestamp>>

\* mutant: the pause flag is left as it was
InitializeBorrowSettings_KeepsPaused(debt_ceiling, min_borrow_amount) ==
    /\ DebtCeiling' = Some(debt_ceiling)
    /\ MinBorrowAmount' = Some(min_borrow_amount)
    /\ lastCall' = [op |-> "initialize_borrow_settings", debt_ceiling |-> debt_ceiling,
                    min_borrow_amount |-> min_borrow_amount, result |-> "Ok"]
    /\ UNCHANGED <<UserDebt, UserCollateral, TotalDebt, Paused, timestamp, events>>

InitializeBorrowSettings(debt_ceiling, min_borrow_amount) ==
    /\ DebtCeiling' = Some(debt_ceiling)
    /\ MinBorrowAmount' = Some(min_borrow_amount)
    /\ Paused' = Some(FALSE)
    /\ lastCall' = [op |-> "initialize_borrow_settings", debt_ceiling |-> debt_ceiling,
                    min_borrow_amount |-> min_borrow_amount, result |-> "Ok"]
    /\ UNCHANGED <<UserDebt, UserCollateral, TotalDebt, timestamp, events>>

SetPaused(paused) ==
    /\ Paused' = Some(paused)
    /\ lastCall' = [op |-> "set_paused", paused |-> paused, result |-> "Ok"]
    /\ UNCHANGED <<UserDebt, UserCollateral, TotalDebt, DebtCeiling, MinBorrowAmount,
                   timestamp, events>>

\* mutant: the query saves the position it returns
GetUserDebt_Persists(user) ==
    /\ lastCall' = [op |-> "get_user_debt", user |-> user, ret |-> get_user_debt(user),
                    at |-> timestamp]
    /\ UserDebt' = [UserDebt EXCEPT ![user] = Some(get_user_debt(user))]
    /\ UNCHANGED <<UserCollateral, TotalDebt, DebtCeiling, MinBorrowAmount, Paused,
                   timestamp, events>>

GetUserDebt(user) ==
    /\ lastCall' = [op |-> "get_user_debt", user |-> user, ret |-> get_user_debt(user),
                    at |-> timestamp]
    /\ UNCHANGED <<storage, timestamp, events>>

GetUserCollateral(user) ==
    /\ lastCall' = [op |-> "get_user_collateral", user |-> user,
                    ret |-> get_user_collateral(user)]
    /\ UNCHANGED <<storage, timestamp, events>>

\* the ledger closes: the timestamp of the next invocation is later
Tick(seconds) ==
    /\ timestamp + seconds <= MaxTime
    /\ timestamp' = timestamp + seconds
    /\ UNCHANGED <<storage, events, lastCall>>

Next ==
    \/ \E c \in BorrowCalls :
          Borrow(c.user, c.asset, c.amount, c.collateral_asset, c.collateral_amount,
                 c.authorized)
    \/ \E setting \in Settings : InitializeBorrowSettings(setting[1], setting[2])
    \/ \E paused \in BOOLEAN : SetPaused(paused)
    \/ \E user \in Users : GetUserDebt(user)
    \/ \E user \in Users : GetUserCollateral(user)
    \/ \E seconds \in TickSeconds : Tick(seconds)

Spec == Init /\ [][Next]_vars

----------------------------------------------------------------------------
(* The contract late in its life.  From the empty contract one borrow adds *)
(* at most i128::MAX / 15000 to TotalDebt, and one accrual at most         *)
(* MaxAccrual to interest_accrued, so the states in which an addition of   *)
(* borrow can overflow lie many thousands of calls after Init.  SpecAged   *)
(* starts in two states that such histories reach, with the ledger time    *)
(* counted from that moment and the events those published since then.     *)

\* the largest interest one accrual can yield: every product saturated
MaxAccrual == IntDiv(IntDiv(I128_MAX, BASIS_POINTS), SECONDS_PER_YEAR)

\* MaxAccrual * 315360000000 = i128::MAX - 236364105727
OldInterest == IntMul(IntMul(MaxAccrual, BASIS_POINTS), SECONDS_PER_YEAR)

Half == IntDiv(I128_MAX, 2)

\* 10^30, less than i128::MAX / 15000
Whale == IntMul(IntMul(IntMul(I(1000000000), 1000000000), 1000000000), 1000)

(* OldMarket: alice and bob each owe about half of i128::MAX, so TotalDebt *)
(* is i128::MAX - 5000.  alice reached her principal by borrows at one     *)
(* moment followed by 315360000000 borrows of 1, each at least a second    *)
(* after the one before: her principal times 500 saturates, so each of     *)
(* them accrued MaxAccrual.  Her collateral is 2000 short of i128::MAX,    *)
(* bob's is three quarters of it.                                          *)
OldMarket ==
    [UserDebt |-> [u \in Users |->
                     IF u = "alice"
                     THEN Some(DebtPosition(Half, OldInterest, 0, "USDC"))
                     ELSE Some(DebtPosition(
                              IntAdd(IntAdd(I128_MAX, I(-5000)), IntMul(Half, -1)),
                              ZERO, 0, "USDC"))],
     UserCollateral |-> [u \in Users |->
                     IF u = "alice"
                     THEN Some(CollateralPosition(IntAdd(I128_MAX, I(-2000)), "XLM"))
                     ELSE Some(CollateralPosition(IntMul(IntDiv(I128_MAX, 4), 3), "XLM"))],
     TotalDebt |-> Some(IntAdd(I128_MAX, I(-5000)))]

(* YoungMarket: the state after bob's borrow(10^30, 15 * 10^29) on the     *)
(* empty contract.                                                         *)
YoungMarket ==
    [UserDebt |-> [u \in Users |->
                     IF u = "bob" THEN Some(DebtPosition(Whale, ZERO, 0, "USDC"))
                     ELSE None],
     UserCollateral |-> [u \in Users |->
                     IF u = "bob"
                     THEN Some(CollateralPosition(IntDiv(IntMul(Whale, 3), 2), "XLM"))
                     ELSE None],
     TotalDebt |-> Some(Whale)]

AgedMarkets == {OldMarket, YoungMarket}

\* the borrow calls made on the aged markets
AgedCalls ==
    { Call("alice", "USDC", I(1), "XLM", I(2), TRUE),
      Call("alice", "USDC", I(1000), "XLM", I(1500), TRUE),
      Call("alice", "USDC", I(1000), "XLM", I(1499), TRUE),
      Call("alice", "USDC", I(0), "XLM", I(1), TRUE),
      Call("alice", "USDC", IntAdd(RatioLimit, I(1)), "XLM", I128_MAX, TRUE),
      Call("bob", "USDC", Whale, "XLM", IntDiv(IntMul(Whale, 3), 2), TRUE),
      Call("bob", "USDC", I(1), "XLM", I(2), FALSE) }

AgedSettings == { <<I(500), I(1)>> }

InitAged ==
    /\ \E market \in AgedMarkets :
          /\ UserDebt = market.UserDebt
          /\ UserCollateral = market.UserCollateral
          /\ TotalDebt = market.TotalDebt
    /\ DebtCeiling = None
    /\ MinBorrowAmount = None
    /\ Paused = None
    /\ timestamp = 0
    /\ events = <<>>
    /\ lastCall = [op |-> "none"]

NextAged ==
    \/ \E c \in AgedCalls :
          Borrow(c.user, c.asset, c.amount, c.collateral_asset, c.collateral_amount,
                 c.authorized)
    \/ \E setting \in AgedSettings : InitializeBorrowSettings(setting[1], setting[2])
    \/ \E paused \in BOOLEAN : SetPaused(paused)
    \/ \E user \in Users : GetUserDebt(user)
    \/ \E user \in Users : GetUserCollateral(user)
    \/ \E seconds \in TickSeconds : Tick(seconds)

SpecAged == InitAged /\ [][NextAged]_vars

----------------------------------------------------------------------------
(* Properties.                                                             *)

IsBorrow(call) == call.op = "borrow"

\* a step in which a call was made that differs from the one before it
CallStep == lastCall' # lastCall \/ events' # events

BorrowErrors ==
    {"ProtocolPaused", "InvalidAmount", "BelowMinimumBorrow",
     "InsufficientCollateral", "Overflow", "DebtCeilingReached"}

(* C1: a borrow that returns an error (ProtocolPaused, InvalidAmount,      *)
(* BelowMinimumBorrow, InsufficientCollateral, Overflow,                    *)
(* DebtCeilingReached) leaves every user's debt and collateral position,   *)
(* TotalDebt, DebtCeiling, MinBorrowAmount and Paused as they were.        *)
C1_ErrorLeavesStorage ==
    [][(IsBorrow(lastCall') /\ lastCall'.result \in BorrowErrors)
         => UNCHANGED storage]_vars

\* the ceiling is 500 and a borrow of 1000 was refused with DebtCeilingReached
C1_Witness ==
    /\ IsBorrow(lastCall)
    /\ lastCall.result = "DebtCeilingReached"
    /\ lastCall.amount = I(1000)
    /\ DebtCeiling = Some(I(500))
    /\ UserDebt[lastCall.user] = None

(* C2: a borrow that passes the checks before the ceiling check fails with *)
(* DebtCeilingReached exactly when TotalDebt + amount is greater than the   *)
(* ceiling of that moment, so right after a successful borrow TotalDebt is *)
(* at most DebtCeiling.                                                    *)
ReachesCeilingCheck(call) ==
    /\ call.authorized
    /\ borrow_validate(call.amount, call.collateral_amount) = "Ok"
    /\ Fits(IntAdd(get_total_debt, call.amount))

C2_CeilingEnforced ==
    [][(CallStep /\ IsBorrow(lastCall')) =>
        LET call == lastCall'
            over == Gt(IntAdd(get_total_debt, call.amount), get_debt_ceiling)
        IN  /\ (call.result = "DebtCeilingReached") <=> (ReachesCeilingCheck(call) /\ over)
            /\ call.result = "Ok" =>
                   Le(unwrap_or(TotalDebt', ZERO), unwrap_or(DebtCeiling', I128_MAX))
      ]_vars

\* a successful borrow has brought TotalDebt exactly to the configured ceiling
C2_Witness ==
    /\ IsBorrow(lastCall)
    /\ lastCall.result = "Ok"
    /\ DebtCeiling # None
    /\ TotalDebt = DebtCeiling

(* C3: in every reachable state TotalDebt is the sum, over all users, of   *)
(* the stored borrowed_amount (0 for a user with no stored position).      *)
RECURSIVE SumBorrowed(_)
SumBorrowed(us) ==
    IF us = {} THEN ZERO
    ELSE LET u == CHOOSE x \in us : TRUE
         IN  IntAdd(get_debt_position(u).borrowed_amount, SumBorrowed(us \ {u}))

C3_TotalDebtIsSum == get_total_debt = SumBorrowed(Users)

\* both users hold debt
C3_Witness ==
    /\ \A u \in Users : UserDebt[u] # None
    /\ Gt(get_total_debt, get_debt_position("alice").borrowed_amount)

(* C4: the pause check is the first validation of borrow.  While Paused   *)
(* is set, every borrow by an authorized caller fails with ProtocolPaused,  *)
(* whatever the amounts, the minimum, the ceiling and the total debt, no    *)
(* borrow succeeds, and only set_paused or initialize_borrow_settings       *)
(* unsets the flag.                                                        *)
C4_PausedBlocksBorrow ==
    [][/\ (CallStep /\ IsBorrow(lastCall') /\ is_paused) =>
            /\ lastCall'.result # "Ok"
            /\ events' = events
            /\ lastCall'.authorized => lastCall'.result = "ProtocolPaused"
       /\ (is_paused /\ Paused' # Paused) =>
            lastCall'.op \in {"set_paused", "initialize_borrow_settings"}
      ]_vars

\* paused, and a borrow with a non-positive amount was answered ProtocolPaused
C4_Witness ==
    /\ is_paused
    /\ IsBorrow(lastCall)
    /\ Le(lastCall.amount, ZERO)
    /\ lastCall.result = "ProtocolPaused"

(* C5 as stated: a borrow with amount <= 0 or collateral_amount <= 0       *)
(* always fails with InvalidAmount, independent of the pause flag.         *)
NonPositive(call) == Le(call.amount, ZERO) \/ Le(call.collateral_amount, ZERO)

C5_AlwaysInvalidAmount ==
    (IsBorrow(lastCall) /\ lastCall.authorized /\ NonPositive(lastCall))
        => lastCall.result = "InvalidAmount"

(* C5 amended: while the protocol is not paused, a borrow with amount <= 0 *)
(* or collateral_amount <= 0 fails with InvalidAmount, independent of the  *)
(* minimum, the ceiling and the total debt; while it is paused the same    *)
(* call fails with ProtocolPaused.                                         *)
C5_InvalidAmountUnlessPaused ==
    (IsBorrow(lastCall) /\ lastCall.authorized /\ NonPositive(lastCall))
        => lastCall.result = (IF is_paused THEN "ProtocolPaused" ELSE "InvalidAmount")

\* InvalidAmount was returned although the total debt is above the ceiling
C5_Witness ==
    /\ IsBorrow(lastCall)
    /\ NonPositive(lastCall)
    /\ lastCall.result = "InvalidAmount"
    /\ Gt(get_total_debt, get_debt_ceiling)

(* C6 as stated: for amount > 0, no borrow with                            *)
(* collateral_amount * 10000 < amount * 15000 succeeds.                    *)
BelowRatio(call) ==
    Lt(IntMul(call.collateral_amount, BASIS_POINTS),
       IntMul(call.amount, COLLATERAL_RATIO_MIN))

C6_NoBorrowBelowRatio ==
    (IsBorrow(lastCall) /\ Gt(lastCall.amount, ZERO) /\ BelowRatio(lastCall))
        => lastCall.result # "Ok"

(* C7 as stated: with amount > 0, collateral_amount > 0 and                *)
(* collateral_amount * 10000 >= amount * 15000, borrow succeeds whenever   *)
(* the protocol is unpaused, amount is at least the minimum and            *)
(* TotalDebt + amount does not exceed the ceiling.                         *)
Admissible(call) ==
    /\ call.authorized
    /\ Gt(call.amount, ZERO)
    /\ Gt(call.collateral_amount, ZERO)
    /\ ~BelowRatio(call)
    /\ ~is_paused
    /\ Ge(call.amount, get_min_borrow_amount)
    /\ Le(IntAdd(get_total_debt, call.amount), get_debt_ceiling)

C7_AdmissibleSucceeds ==
    [][(CallStep /\ IsBorrow(lastCall') /\ Admissible(lastCall'))
         => lastCall'.result = "Ok"]_vars

(* C7 amended: such a borrow succeeds provided also that amount * 15000,   *)
(* borrowed_amount + amount, interest_accrued + accrued interest and the   *)
(* user's collateral amount + collateral_amount stay within the i128       *)
(* range (otherwise it fails with Overflow); on success TotalDebt grows by *)
(* exactly amount and the user's collateral by exactly collateral_amount.  *)
NoOverflow(call) ==
    LET position == get_debt_position(call.user) IN
    /\ Fits(IntMul(call.amount, COLLATERAL_RATIO_MIN))
    /\ Fits(IntAdd(position.borrowed_amount, call.amount))
    /\ Fits(IntAdd(position.interest_accrued, calculate_interest(position)))
    /\ Fits(IntAdd(get_collateral_position(call.user).amount, call.collateral_amount))

C7_AdmissibleSucceedsUnlessOverflow ==
    [][(CallStep /\ IsBorrow(lastCall')) =>
        LET call == lastCall' IN
        /\ Admissible(call) =>
               call.result = (IF NoOverflow(call) THEN "Ok" ELSE "Overflow")
        /\ call.result = "Ok" =>
               /\ unwrap_or(TotalDebt', ZERO) = IntAdd(get_total_debt, call.amount)
               /\ UserCollateral'[call.user] # None
               /\ UserCollateral'[call.user][1].amount =
                      IntAdd(get_collateral_position(call.user).amount,
                             call.collateral_amount)
      ]_vars

\* 1000 was borrowed against 1500 from the empty state
C7_Witness ==
    /\ IsBorrow(lastCall)
    /\ lastCall.result = "Ok"
    /\ lastCall.amount = I(1000)
    /\ lastCall.collateral_amount = I(1500)
    /\ TotalDebt = Some(I(1000))
    /\ get_user_collateral(lastCall.user).amount = I(1500)

(* C8: repeated borrows of one user accumulate: get_user_debt(user)        *)
(* returns as borrowed_amount the sum of the amounts of that user's        *)
(* successful borrows, and failed borrows add nothing.                     *)
RECURSIVE SumAmounts(_, _)
SumAmounts(user, evs) ==
    IF evs = <<>> THEN ZERO
    ELSE IntAdd(IF Head(evs).user = user THEN Head(evs).amount ELSE ZERO,
                SumAmounts(user, Tail(evs)))

C8_BorrowsAccumulate ==
    \A user \in Users : get_user_debt(user).borrowed_amount = SumAmounts(user, events)

\* one user has borrowed 1000 and 1001, in either order
C8_Witness ==
    /\ Len(events) = 2
    /\ events[1].user = events[2].user
    /\ events[1].amount # events[2].amount
    /\ get_user_debt(events[1].user).borrowed_amount = I(2001)

(* C9: get_user_debt and get_user_collateral change no persisted state:    *)
(* the interest computed by get_user_debt is in the returned value only,   *)
(* and two get_user_debt calls with no time elapsed between them return    *)
(* the same interest_accrued.                                              *)
Queries == {"get_user_debt", "get_user_collateral"}

C9_QueriesAreReadOnly ==
    [][lastCall'.op \in Queries =>
        /\ UNCHANGED <<storage, events>>
        /\ (/\ lastCall.op = "get_user_debt"
            /\ lastCall'.op = "get_user_debt"
            /\ lastCall'.user = lastCall.user
            /\ lastCall'.at = lastCall.at)
              => lastCall'.ret.interest_accrued = lastCall.ret.interest_accrued
      ]_vars

\* the query returned interest that the stored position does not hold
C9_Witness ==
    /\ lastCall.op = "get_user_debt"
    /\ UserDebt[lastCall.user] # None
    /\ Gt(lastCall.ret.interest_accrued, UserDebt[lastCall.user][1].interest_accrued)
    /\ UserDebt[lastCall.user][1].last_update < timestamp

(* C10 as stated: a borrow whose caller is not authorized for user fails   *)
(* with Unauthorized.                                                      *)
C10_FailsWithUnauthorized ==
    (IsBorrow(lastCall) /\ ~lastCall.authorized) => lastCall.result = "Unauthorized"

(* C11: with no settings stored, borrow uses the defaults: the minimum is  *)
(* 1000 (999 fails with BelowMinimumBorrow, 1000 against 1500 succeeds),   *)
(* the ceiling is i128::MAX (no DebtCeilingReached), the protocol is not   *)
(* paused, and a user with no stored position has zero debt and zero       *)
(* collateral.                                                             *)
C11_DefaultsApply ==
    [][(CallStep /\ IsBorrow(lastCall') /\ lastCall'.authorized) =>
        LET call == lastCall' IN
        /\ Paused = None => call.result # "ProtocolPaused"
        /\ DebtCeiling = None => call.result # "DebtCeilingReached"
        /\ (MinBorrowAmount = None /\ ~is_paused /\ ~NonPositive(call)) =>
               ((call.result = "BelowMinimumBorrow") <=> Lt(call.amount, I(1000)))
        /\ (/\ Paused = None /\ DebtCeiling = None /\ MinBorrowAmount = None
            /\ UserCollateral[call.user] = None
            /\ call.amount = I(1000) /\ call.collateral_amount = I(1500))
               => call.result = "Ok"
        /\ (call.result = "Ok" /\ UserDebt[call.user] = None) =>
               UserDebt'[call.user] =
                   Some(DebtPosition(call.amount, ZERO, timestamp, call.asset))
        /\ (call.result = "Ok" /\ UserCollateral[call.user] = None) =>
               UserCollateral'[call.user] =
                   Some(CollateralPosition(call.collateral_amount, call.collateral_asset))
        /\ (call.result = "Ok" /\ TotalDebt = None) => TotalDebt' = Some(call.amount)
      ]_vars

\* nothing is configured and a borrow of 999 was refused as below the minimum
C11_Witness ==
    /\ Paused = None /\ DebtCeiling = None /\ MinBorrowAmount = None
    /\ IsBorrow(lastCall)
    /\ lastCall.amount = I(999)
    /\ lastCall.result = "BelowMinimumBorrow"

InterestRef(borrowed, elapsed) ==
    LET e == IF elapsed < 0 THEN 0 ELSE elapsed
        product == IntMul(IntMul(borrowed, 500), e)
        limited == IF Gt(product, I128_MAX) THEN I128_MAX ELSE product
    IN  IF borrowed = ZERO THEN ZERO
        ELSE IntDiv(IntDiv(limited, 10000), 31536000)

(* C15: a successful borrow at time t on the stored position (b, i, lu)    *)
(* stores (b + amount, i + interest(b, t - lu), t): interest is charged on *)
(* the principal before this borrow, so a user's first borrow and a borrow *)
(* at the time of the last update leave interest_accrued as it was.        *)
C15_AccrualOnBorrow ==
    [][(CallStep /\ IsBorrow(lastCall') /\ lastCall'.result = "Ok") =>
        LET call == lastCall'
            old  == get_debt_position(call.user)
            new  == UserDebt'[call.user][1]
        IN
        /\ new.borrowed_amount = IntAdd(old.borrowed_amount, call.amount)
        /\ new.interest_accrued =
               IntAdd(old.interest_accrued,
                      InterestRef(old.borrowed_amount, timestamp - old.last_update))
        /\ new.last_update = timestamp
        /\ (UserDebt[call.user] = None \/ old.last_update = timestamp)
               => new.interest_accrued = old.interest_accrued
      ]_vars

\* a second borrow one year after a first of 1000 accrued 50, not 100
C15_Witness ==
    /\ IsBorrow(lastCall)
    /\ lastCall.result = "Ok"
    /\ lastCall.amount = I(1000)
    /\ UserDebt[lastCall.user] =
           Some(DebtPosition(I(2000), I(50), SECONDS_PER_YEAR, lastCall.asset))

(* C19: the clock being monotonic, each user's stored borrowed_amount,     *)
(* interest_accrued and collateral amount are non-negative and never       *)
(* decrease, and last_update never moves backward.                         *)
C19_PositionsGrow ==
    [][\A u \in Users :
        /\ UserDebt[u] # None =>
             /\ UserDebt'[u] # None
             /\ Ge(UserDebt'[u][1].borrowed_amount, UserDebt[u][1].borrowed_amount)
             /\ Ge(UserDebt'[u][1].interest_accrued, UserDebt[u][1].interest_accrued)
             /\ UserDebt'[u][1].last_update >= UserDebt[u][1].last_update
        /\ UserDebt'[u] # None =>
             /\ Ge(UserDebt'[u][1].borrowed_amount, ZERO)
             /\ Ge(UserDebt'[u][1].interest_accrued, ZERO)
        /\ UserCollateral[u] # None =>
             /\ UserCollateral'[u] # None
             /\ Ge(UserCollateral'[u][1].amount, UserCollateral[u][1].amount)
        /\ UserCollateral'[u] # None => Ge(UserCollateral'[u][1].amount, ZERO)
      ]_vars

\* a user borrowed 1001 against 1501 and then, a year later, 1000 against 1500
C19_Witness ==
    /\ IsBorrow(lastCall)
    /\ lastCall.result = "Ok"
    /\ lastCall.collateral_amount = I(1500)
    /\ UserCollateral[lastCall.user] # None
    /\ UserCollateral[lastCall.user][1].amount = I(3001)
    /\ UserDebt[lastCall.user][1].interest_accrued = I(50)

(* C20 as stated: in every reachable state each user's collateral amount   *)
(* times 10000 is at least their borrowed_amount times 15000.              *)
C20_Solvent ==
    \A u \in Users :
        Ge(IntMul(get_collateral_position(u).amount, BASIS_POINTS),
           IntMul(get_debt_position(u).borrowed_amount, COLLATERAL_RATIO_MIN))

IsDebtQuery(call) == call.op = "get_user_debt"

(* the times at which the interest of a queried position is computed: the  *)
(* start of the model's clock, the position's last update, a second and a  *)
(* year after it                                                           *)
SampleTimes(position) ==
    {0, position.last_update, position.last_update + 1,
     position.last_update + SECONDS_PER_YEAR}

(* C13: for the position a query has read (borrowed_amount >= 0,           *)
(* last_update fixed) the interest computed at t2 is at least the interest *)
(* computed at t1 whenever t2 >= t1, also when a product saturates.        *)
C13_InterestMonotonic ==
    IsDebtQuery(lastCall) =>
        \A position \in {get_debt_position(lastCall.user)} :
        \A interest \in {[t \in SampleTimes(position) |-> interest_at(position, t)]} :
        \A t1, t2 \in SampleTimes(position) :
            t1 <= t2 => Le(interest[t1], interest[t2])

(* a position of 10^30 queried after a year: its interest after a second   *)
(* comes from exact products, after a year from a saturated one            *)
C13_Witness ==
    /\ lastCall.op = "get_user_debt"
    /\ UserDebt[lastCall.user] # None
    /\ LET position == UserDebt[lastCall.user][1] IN
       /\ position.borrowed_amount = Whale
       /\ timestamp = position.last_update + SECONDS_PER_YEAR
       /\ Fits(IntMul(IntMul(Whale, 500), 1))
       /\ ~Fits(IntMul(IntMul(Whale, 500), SECONDS_PER_YEAR))
       /\ Fits(IntMul(Whale, 500))
       /\ Gt(interest_at(position, position.last_update + 1), ZERO)
       /\ lastCall.ret.interest_accrued =
              IntAdd(position.interest_accrued, MaxAccrual)

\* x limited to the bounds of i128
Clamp(x) ==
    IF Gt(x, I128_MAX) THEN I128_MAX ELSE IF Lt(x, I128_MIN) THEN I128_MIN ELSE x

(* C16: calculate_interest returns 0 when borrowed_amount is 0, otherwise  *)
(* ((sat(sat(borrowed_amount * 500) * elapsed)) / 10000) / 31536000 with   *)
(* truncating division and elapsed = now - last_update clamped to 0; it    *)
(* always returns a value, and when no product saturates that value is     *)
(* floor(floor(borrowed_amount * 500 * elapsed / 10000) / 31536000).       *)
C16_InterestFormula ==
    IsDebtQuery(lastCall) =>
        LET position == get_debt_position(lastCall.user)
            borrowed == position.borrowed_amount
        IN  \A now \in SampleTimes(position) :
            \A interest \in {interest_at(position, now)} :
                LET elapsed  == IF now > position.last_update
                                THEN now - position.last_update ELSE 0
                    exact    == IntMul(IntMul(borrowed, 500), elapsed)
                IN
                /\ Fits(interest)
                /\ borrowed = ZERO => interest = ZERO
                /\ borrowed # ZERO =>
                       interest =
                           IntDiv(IntDiv(Clamp(IntMul(Clamp(IntMul(borrowed, 500)),
                                                      elapsed)),
                                         10000),
                                  31536000)
                /\ (Fits(IntMul(borrowed, 500)) /\ Fits(exact)) =>
                       interest = IntDiv(IntDiv(exact, 10000), 31536000)

(* a debt of 1000 queried a year after its borrow shows 50 of interest,    *)
(* while the other user's position of 10^30 yields the saturated interest  *)
C16_Witness ==
    /\ lastCall.op = "get_user_debt"
    /\ UserDebt[lastCall.user] # None
    /\ UserDebt[lastCall.user][1].borrowed_amount = I(1000)
    /\ UserDebt[lastCall.user][1].interest_accrued = ZERO
    /\ lastCall.ret.interest_accrued = I(50)
    /\ \E u \in Users :
          /\ UserDebt[u] # None
          /\ calculate_interest(UserDebt[u][1]) = MaxAccrual

(* The first rejection of an authorized borrow in the order of C17, or     *)
(* "Ok", from the storage before the call.                                 *)
FirstRejection(call) ==
    LET amount     == call.amount
        collateral == call.collateral_amount
        debt       == get_debt_position(call.user)
        new_total  == IntAdd(get_total_debt, amount)
    IN
    IF is_paused THEN "ProtocolPaused"
    ELSE IF Le(amount, ZERO) \/ Le(collateral, ZERO) THEN "InvalidAmount"
    ELSE IF Lt(amount, get_min_borrow_amount) THEN "BelowMinimumBorrow"
    ELSE IF ~Fits(IntMul(amount, 15000)) THEN "Overflow"
    ELSE IF Lt(collateral, IntDiv(IntMul(amount, 15000), 10000))
         THEN "InsufficientCollateral"
    ELSE IF ~Fits(new_total) THEN "Overflow"
    ELSE IF Gt(new_total, get_debt_ceiling) THEN "DebtCeilingReached"
    ELSE IF ~Fits(IntAdd(debt.borrowed_amount, amount)) THEN "Overflow"
    ELSE IF ~Fits(IntAdd(debt.interest_accrued,
                         InterestRef(debt.borrowed_amount,
                                     timestamp - debt.last_update)))
         THEN "Overflow"
    ELSE IF ~Fits(IntAdd(get_collateral_position(call.user).amount, collateral))
         THEN "Overflow"
    ELSE "Ok"

(* C17: borrow is fail-fast in a fixed order: the error an authorized call *)
(* returns is the first that applies among ProtocolPaused, InvalidAmount,  *)
(* BelowMinimumBorrow, Overflow of amount * 15000, InsufficientCollateral, *)
(* Overflow of TotalDebt + amount, DebtCeilingReached, Overflow of the     *)
(* position updates (borrowed_amount, interest_accrued, collateral).       *)
C17_FailFastOrder ==
    [][(CallStep /\ IsBorrow(lastCall') /\ lastCall'.authorized)
         => lastCall'.result = FirstRejection(lastCall')]_vars

(* a borrow of 10^30 overflowed TotalDebt and returned Overflow although   *)
(* the ceiling of 500 was exceeded as well                                 *)
C17_Witness ==
    /\ IsBorrow(lastCall)
    /\ lastCall.result = "Overflow"
    /\ lastCall.amount = Whale
    /\ ~Fits(IntAdd(get_total_debt, lastCall.amount))
    /\ DebtCeiling = Some(I(500))
    /\ ~is_paused

\* one of the five results of borrow's arithmetic would leave i128
WouldOverflow(call) ==
    LET debt == get_debt_position(call.user) IN
    \/ ~Fits(IntAdd(get_total_debt, call.amount))
    \/ ~Fits(IntMul(call.amount, 15000))
    \/ ~Fits(IntAdd(debt.borrowed_amount, call.amount))
    \/ ~Fits(IntAdd(debt.interest_accrued,
                    InterestRef(debt.borrowed_amount, timestamp - debt.last_update)))
    \/ ~Fits(IntAdd(get_collateral_position(call.user).amount, call.collateral_amount))

InDomain(x) == Ge(x, ZERO) /\ Le(x, I128_MAX)

StoredInRange ==
    /\ InDomain(get_total_debt)
    /\ \A u \in Users :
          /\ InDomain(get_debt_position(u).borrowed_amount)
          /\ InDomain(get_debt_position(u).interest_accrued)
          /\ InDomain(get_collateral_position(u).amount)

(* C18 as stated: a borrow in which TotalDebt + amount, amount * 15000,    *)
(* borrowed_amount + amount, interest_accrued + accrued interest or        *)
(* collateral amount + collateral_amount would exceed the integer domain   *)
(* fails with Overflow and writes nothing, and the stored amounts stay in  *)
(* [0, i128::MAX].                                                         *)
C18_OverflowFailsWithOverflow ==
    /\ []StoredInRange
    /\ [][(CallStep /\ IsBorrow(lastCall') /\ lastCall'.authorized
              /\ WouldOverflow(lastCall'))
            => (lastCall'.result = "Overflow" /\ UNCHANGED storage)]_vars

\* no check that comes before an overflowing operation rejects the call
PassesOtherChecks(call) ==
    /\ call.authorized
    /\ ~is_paused
    /\ Gt(call.amount, ZERO) /\ Gt(call.collateral_amount, ZERO)
    /\ Ge(call.amount, get_min_borrow_amount)
    /\ Fits(IntMul(call.amount, 15000)) =>
           Ge(call.collateral_amount, IntDiv(IntMul(call.amount, 15000), 10000))
    /\ Fits(IntAdd(get_total_debt, call.amount)) =>
           Le(IntAdd(get_total_debt, call.amount), get_debt_ceiling)

(* C18, amended: such a borrow fails and writes nothing, with Overflow     *)
(* unless an earlier check of the fail-fast order rejects it first, and    *)
(* the stored amounts stay in [0, i128::MAX].                              *)
C18_NoWrap ==
    /\ []StoredInRange
    /\ [][(CallStep /\ IsBorrow(lastCall') /\ WouldOverflow(lastCall')) =>
            /\ lastCall'.result # "Ok"
            /\ UNCHANGED storage
            /\ PassesOtherChecks(lastCall') => lastCall'.result = "Overflow"
          ]_vars

(* a borrow of 1000 failed with Overflow only because the interest of the  *)
(* year added to interest_accrued leaves i128                              *)
C18_Witness ==
    /\ IsBorrow(lastCall)
    /\ lastCall.result = "Overflow"
    /\ lastCall.amount = I(1000)
    /\ Fits(IntAdd(get_total_debt, lastCall.amount))
    /\ Fits(IntAdd(get_collateral_position(lastCall.user).amount,
                   lastCall.collateral_amount))
    /\ ~Fits(IntAdd(get_debt_position(lastCall.user).interest_accrued,
                    calculate_interest(get_debt_position(lastCall.user))))

====
